---- MODULE Spec2Model ----
(***************************************************************************)
(* Model of src/src/util/md/mod.ts: processMarkdown, getHeadings and       *)
(* getFrontmatter.  Strings are sequences of one-character strings.        *)
(***************************************************************************)
EXTENDS Integers, Sequences, FiniteSets, TLC

VARIABLES args, pc, instances, marked, given, local, queue, out, data, error, log,
          hText, hPc, hHeadings, name, id, id2, idPc

vars == <<args, pc, instances, marked, given, local, queue, out, data, error, log,
          hText, hPc, hHeadings, name, id, id2, idPc>>

callVars == <<args, pc, instances, marked, given, local, queue, out, data, error, log>>

headingVars == <<hText, hPc, hHeadings>>

idVars == <<name, id, id2, idPc>>

(* ---------------------------- bounds ----------------------------------- *)
MaxPieces == 4

MaxLines == 4

MaxName == 3

MaxBlocks == 2

(* ------------------------- characters ---------------------------------- *)
NL == "\n"

Delim == <<"-", "-", "-">>

\* the grave accent U+0060, which a TLA+ string literal cannot hold
Grave == "grave"

Backticks == <<Grave, Grave, Grave>>

LineTerminators == {"\n", "\r"}

UpperToLower == [c \in {"A", "H", "W"} |-> CASE c = "A" -> "a" [] c = "H" -> "h" [] c = "W" -> "w"]

LowerLetters == {"a", "b", "d", "e", "h", "l", "o", "r", "w", "z"}

Digits == {"1"}

\* \s of the regular expressions and the characters String.prototype.trim removes
IsSpace(c) == c \in {" ", "\t", "\n", "\r"}

\* \w of the regular expressions: [A-Za-z0-9_]
IsWord(c) == c \in LowerLetters \cup DOMAIN UpperToLower \cup Digits \cup {"_"}

ToLower(c) == IF c \in DOMAIN UpperToLower THEN UpperToLower[c] ELSE c

(* ------------------------- optional values ----------------------------- *)
None == <<>>

Some(x) == <<x>>

(* ------------------------- string primitives --------------------------- *)
Min(a, b) == IF a < b THEN a ELSE b

Drop(s, n) == SubSeq(s, n + 1, Len(s))

IsPrefixAt(s, d, i) == /\ i + Len(d) - 1 <= Len(s)
                       /\ \A j \in 1..Len(d) : s[i + j - 1] = d[j]

\* first index at which d occurs in s, 0 when it does not occur
IndexOf(s, d) == IF \E i \in 1..Len(s) : IsPrefixAt(s, d, i)
                 THEN CHOOSE i \in 1..Len(s) : /\ IsPrefixAt(s, d, i)
                                               /\ \A k \in 1..(i - 1) : ~IsPrefixAt(s, d, k)
                 ELSE 0

RECURSIVE Split(_, _)
\* String.prototype.split with a string separator
Split(s, d) == LET i == IndexOf(s, d)
               IN IF i = 0 THEN <<s>>
                  ELSE <<SubSeq(s, 1, i - 1)>> \o Split(Drop(s, i + Len(d) - 1), d)

RECURSIVE Join(_, _)
\* Array.prototype.join
Join(segs, d) == IF segs = <<>> THEN <<>>
                 ELSE IF Len(segs) = 1 THEN segs[1]
                 ELSE segs[1] \o d \o Join(Tail(segs), d)

\* Array.prototype.at with a 0-based index: undefined past the end
At(arr, i) == IF i + 1 <= Len(arr) THEN Some(arr[i + 1]) ELSE None

\* Array.prototype.slice(start) with a 0-based start
Slice(arr, start) == Drop(arr, Min(start, Len(arr)))

RECURSIVE TrimStart(_)
TrimStart(s) == IF s # <<>> /\ IsSpace(Head(s)) THEN TrimStart(Tail(s)) ELSE s

RECURSIVE TrimEnd(_)
TrimEnd(s) == IF s # <<>> /\ IsSpace(s[Len(s)]) THEN TrimEnd(SubSeq(s, 1, Len(s) - 1)) ELSE s

\* String.prototype.trim
Trim(s) == TrimEnd(TrimStart(s))

\* length of the run of characters satisfying the class at the start of s
RECURSIVE HashRun(_)
HashRun(s) == IF s # <<>> /\ Head(s) = "#" THEN 1 + HashRun(Tail(s)) ELSE 0

RECURSIVE SpaceRun(_)
SpaceRun(s) == IF s # <<>> /\ IsSpace(Head(s)) THEN 1 + SpaceRun(Tail(s)) ELSE 0

RECURSIVE DotPlus(_)
\* what (.+) matches at the start of s: the longest run without a line terminator
DotPlus(s) == IF s # <<>> /\ Head(s) \notin LineTerminators
              THEN <<Head(s)>> \o DotPlus(Tail(s)) ELSE <<>>

(* ------------------------- getHeadings --------------------------------- *)
\* codeFenceRegex.test(line): the line starts with three grave accents
codeFenceRegex(line) == IsPrefixAt(line, Backticks, 1)

\* the ways /^(#{1,6})\s*(.+)/ can match: g hashes, w whitespace, a non-empty rest
HeadingCands(line) == {p \in (1..Min(HashRun(line), 6)) \X (0..Len(line)) :
                          /\ p[2] <= SpaceRun(Drop(line, p[1]))
                          /\ DotPlus(Drop(line, p[1] + p[2])) # <<>>}

\* headingRegex.exec(line): greedy quantifiers, so the most hashes, then the most whitespace
headingRegex(line) == LET cs == HeadingCands(line)
                      IN IF cs = {} THEN None
                         ELSE LET p == CHOOSE p \in cs : \A q \in cs :
                                           q[1] < p[1] \/ (q[1] = p[1] /\ q[2] <= p[2])
                              IN Some(<<SubSeq(line, 1, p[1]), DotPlus(Drop(line, p[1] + p[2]))>>)

RECURSIVE ReplaceSpaceRuns(_)
\* .replace(/\s+/g, "-")
ReplaceSpaceRuns(s) == IF s = <<>> THEN <<>>
                       ELSE IF IsSpace(Head(s)) THEN <<"-">> \o ReplaceSpaceRuns(TrimStart(s))
                       ELSE <<Head(s)>> \o ReplaceSpaceRuns(Tail(s))

IsIdChar(c) == IsWord(c) \/ c = "-"

\* .replace(/[^\w-]+/g, "")
StripNonWord(s) == SelectSeq(s, IsIdChar)

LowerCase(s) == [i \in 1..Len(s) |-> ToLower(s[i])]

HeadingIdNoStrip(n) == ReplaceSpaceRuns(LowerCase(Trim(n)))

\* name.trim().toLowerCase().replace(/\s+/g, "-").replace(/[^\w-]+/g, "")
HeadingId(n) == StripNonWord(ReplaceSpaceRuns(LowerCase(Trim(n))))

ScanLineNoToggle(st, rawLine) ==
    LET line == Trim(rawLine)
        match == headingRegex(line)
    IN IF codeFenceRegex(line) THEN st
       ELSE IF st.inCodeFence THEN st
       ELSE IF match # None /\ Len(match[1][1]) # 0 /\ match[1][2] # <<>>
            THEN [st EXCEPT !.headings = Append(@, [id |-> HeadingId(match[1][2]),
                                                    level |-> Len(match[1][1]),
                                                    name |-> match[1][2]])]
            ELSE st

\* one iteration of the for loop of getHeadings
ScanLine(st, rawLine) ==
    LET line == Trim(rawLine)
        match == headingRegex(line)
    IN IF codeFenceRegex(line) THEN [st EXCEPT !.inCodeFence = ~@]
       ELSE IF st.inCodeFence THEN st
       ELSE IF match # None /\ Len(match[1][1]) # 0 /\ match[1][2] # <<>>
            THEN [st EXCEPT !.headings = Append(@, [id |-> HeadingId(match[1][2]),
                                                    level |-> Len(match[1][1]),
                                                    name |-> match[1][2]])]
            ELSE st

RECURSIVE ScanLines(_, _)
ScanLines(st, lines) == IF lines = <<>> THEN st
                        ELSE ScanLines(ScanLine(st, Head(lines)), Tail(lines))

getHeadings(md) == ScanLines([inCodeFence |-> FALSE, headings |-> <<>>], Split(md, <<NL>>)).headings

(* ------------------------- getFrontmatter ------------------------------ *)
Range(s) == {s[i] : i \in 1..Len(s)}

\* load(yaml) of js-yaml, an external decoder reduced to what the pipeline needs:
\* the decoded value is the sequence of keys (word characters) of the block, and
\* a block whose first non-blank character is a reserved indicator is rejected
load(yaml) == IF TrimStart(yaml) # <<>> /\ Head(TrimStart(yaml)) = Grave
              THEN [ok |-> FALSE, value |-> <<>>]
              ELSE [ok |-> TRUE, value |-> SelectSeq(yaml, IsWord)]

\* frontmatterSchema.safeParse(loaded) of a strict object schema, an external
\* validator: one issue per required key that is missing, in schema order, then
\* one per key the schema does not know, in document order
safeParse(schema, loaded) ==
    LET Missing(k) == k \notin Range(loaded)
        Unknown(k) == k \notin Range(schema.keys)
        missing == SelectSeq(schema.keys, Missing)
        unknown == SelectSeq(loaded, Unknown)
        issues == [i \in 1..Len(missing) |-> [code |-> "invalid_type", key |-> missing[i]]]
                  \o [i \in 1..Len(unknown) |-> [code |-> "unrecognized_keys", key |-> unknown[i]]]
    IN [success |-> issues = <<>>, issues |-> issues, data |-> schema.keys]

getFrontmatterLastIssue(yaml, frontmatterSchema) ==
    LET loaded == load(yaml)
        parsed == safeParse(frontmatterSchema, loaded.value)
    IN IF ~loaded.ok THEN [ok |-> FALSE, value |-> <<>>, error |-> [name |-> "YAMLException", issue |-> None]]
       ELSE IF ~parsed.success
            THEN [ok |-> FALSE, value |-> <<>>,
                  error |-> [name |-> "Error", issue |-> Some(parsed.issues[Len(parsed.issues)])]]
            ELSE [ok |-> TRUE, value |-> parsed.data, error |-> [name |-> "", issue |-> None]]

\* getFrontmatter(yaml, frontmatterSchema): the value returned, or the error thrown
getFrontmatter(yaml, frontmatterSchema) ==
    LET loaded == load(yaml)
        parsed == safeParse(frontmatterSchema, loaded.value)
    IN IF ~loaded.ok THEN [ok |-> FALSE, value |-> <<>>, error |-> [name |-> "YAMLException", issue |-> None]]
       ELSE IF ~parsed.success
            THEN [ok |-> FALSE, value |-> <<>>,
                  error |-> [name |-> "Error", issue |-> Some(parsed.issues[1])]]
            ELSE [ok |-> TRUE, value |-> parsed.data, error |-> [name |-> "", issue |-> None]]

(* ------------------------- renderer and highlighter -------------------- *)
\* theme: "github-dark-default"
DefaultTheme == "github-dark-default"

\* the languages of the highlighter's bundle; the empty language is plain text
BundledLangs == {<<"a">>}

PlainLangs == {<<>>}

\* shiki left undefined by the caller
NoShiki == [lang |-> None, theme |-> None]

\* Object.assign(options, shiki)
Assign(options, shiki) ==
    [lang |-> IF shiki.lang # None THEN shiki.lang[1] ELSE options.lang,
     theme |-> IF shiki.theme # None THEN shiki.theme[1] ELSE options.theme]

\* codeToHtml(code, options) of shiki, an external highlighter: it rejects a
\* language that is neither bundled nor plain text
codeToHtml(code, options) ==
    [ok |-> options.lang \in BundledLangs \cup PlainLangs,
     html |-> [type |-> "code", lang |-> options.lang, theme |-> options.theme, text |-> code]]

\* the highlight callback handed to markedHighlight, closed over shiki
highlight(code, lang, shiki) == codeToHtml(code, Assign([lang |-> lang, theme |-> DefaultTheme], shiki))

\* the first word of a fence's info string
FirstWord(s) == LET t == TrimStart(s)
                    Stop(i) == i > Len(t) \/ IsSpace(t[i])
                IN SubSeq(t, 1, (CHOOSE i \in 1..(Len(t) + 1) : Stop(i) /\ \A k \in 1..(i - 1) : ~Stop(k)) - 1)

RECURSIVE LexLines(_, _, _)
\* the block lexer of the renderer, an external component: fenced code blocks
\* (an unclosed fence runs to the end of the text) and lines of prose
LexLines(lines, cur, acc) ==
    IF lines = <<>> THEN (IF cur = None THEN acc ELSE Append(acc, cur[1]))
    ELSE LET l == Head(lines)
         IN IF cur = None
            THEN IF IsPrefixAt(TrimStart(l), Backticks, 1) /\ SpaceRun(l) <= 3
                 THEN LexLines(Tail(lines),
                               Some([type |-> "code", lang |-> FirstWord(Drop(TrimStart(l), 3)), text |-> <<>>]),
                               acc)
                 ELSE LexLines(Tail(lines), None, Append(acc, [type |-> "text", lang |-> <<>>, text |-> <<l>>]))
            ELSE IF Trim(l) = Backticks
                 THEN LexLines(Tail(lines), None, Append(acc, cur[1]))
                 ELSE LexLines(Tail(lines), Some([cur[1] EXCEPT !.text = Append(@, l)]), acc)

Lex(article) == LexLines(Split(article, <<NL>>), None, <<>>)

IsCode(tok) == tok.type = "code"

RECURSIVE Render(_, _)
\* the html: prose as it is, each code block replaced by its highlighted fragment
Render(tokens, hl) ==
    IF tokens = <<>> THEN <<>>
    ELSE IF IsCode(Head(tokens))
         THEN <<Head(hl)>> \o Render(Tail(tokens), Tail(hl))
         ELSE <<[type |-> "text", lang |-> <<>>, theme |-> "", text |-> Head(tokens).text]>>
              \o Render(Tail(tokens), hl)

SharedMarked(insts) == 1

\* new Marked(): a fresh renderer instance
NewMarked(insts) == Len(insts) + 1

\* marked.use(extension) on instance m
Use(insts, m, ext) == IF m > Len(insts) THEN Append(insts, <<ext>>)
                      ELSE [insts EXCEPT ![m] = Append(@, ext)]

\* the options closed over by the highlight extension an instance runs
HookOf(inst) == LET IsHl(i) == inst[i].name = "markedHighlight"
                IN inst[CHOOSE i \in 1..Len(inst) : IsHl(i) /\ \A k \in (i + 1)..Len(inst) : ~IsHl(k)].shiki

(* ------------------------- processMarkdown ----------------------------- *)
\* the truthiness of a possibly undefined string
Truthy(s) == s # None /\ s[1] # <<>>

EmptyObject == <<>>

SyncPartStripAlways(arg) ==
    LET split == Split(arg.md, Delim)
        yaml == At(split, 1)
        shouldProcessFrontmatter == Truthy(yaml) /\ arg.frontmatterSchema # None
        article == IF Truthy(yaml) THEN Join(Slice(split, 2), Delim) ELSE arg.md
        frontmatter == IF shouldProcessFrontmatter
                       THEN getFrontmatter(yaml[1], arg.frontmatterSchema[1])
                       ELSE [ok |-> TRUE, value |-> EmptyObject, error |-> [name |-> "", issue |-> None]]
    IN [given |-> IF shouldProcessFrontmatter THEN Some(yaml[1]) ELSE None,
        frontmatter |-> frontmatter,
        article |-> article]

SyncPartFirstBody(arg) ==
    LET split == Split(arg.md, Delim)
        yaml == At(split, 1)
        shouldProcessFrontmatter == Truthy(yaml) /\ arg.frontmatterSchema # None
        article == IF shouldProcessFrontmatter
                   THEN (IF At(split, 2) = None THEN <<>> ELSE At(split, 2)[1])
                   ELSE arg.md
        frontmatter == IF shouldProcessFrontmatter
                       THEN getFrontmatter(yaml[1], arg.frontmatterSchema[1])
                       ELSE [ok |-> TRUE, value |-> EmptyObject, error |-> [name |-> "", issue |-> None]]
    IN [given |-> IF shouldProcessFrontmatter THEN Some(yaml[1]) ELSE None,
        frontmatter |-> frontmatter,
        article |-> article]

\* lines 244-256: the synchronous part between the renderer's set-up and the await
SyncPart(arg) ==
    LET split == Split(arg.md, Delim)
        yaml == At(split, 1)
        shouldProcessFrontmatter == Truthy(yaml) /\ arg.frontmatterSchema # None
        article == IF shouldProcessFrontmatter THEN Join(Slice(split, 2), Delim) ELSE arg.md
        frontmatter == IF shouldProcessFrontmatter
                       THEN getFrontmatter(yaml[1], arg.frontmatterSchema[1])
                       ELSE [ok |-> TRUE, value |-> EmptyObject, error |-> [name |-> "", issue |-> None]]
    IN [given |-> IF shouldProcessFrontmatter THEN Some(yaml[1]) ELSE None,
        frontmatter |-> frontmatter,
        article |-> article]

NoLocal == [article |-> <<>>, frontmatter |-> <<>>, headings |-> <<>>, tokens |-> <<>>]

Calls == DOMAIN args

\* processMarkdown up to the await of marked.parse(article)
Start(c) ==
    LET m == NewMarked(instances)
        s == SyncPart(args[c])
    IN /\ pc[c] = "idle"
       /\ marked' = [marked EXCEPT ![c] = m]
       /\ instances' = Use(Use(Use(instances, m, [name |-> "gfmHeadingId", shiki |-> NoShiki]),
                               m, [name |-> "markedSmartypants", shiki |-> NoShiki]),
                           m, [name |-> "markedHighlight", shiki |-> args[c].shiki])
       /\ given' = [given EXCEPT ![c] = s.given]
       /\ IF ~s.frontmatter.ok
          THEN /\ pc' = [pc EXCEPT ![c] = "rejected"]
               /\ error' = [error EXCEPT ![c] = Some(s.frontmatter.error)]
               /\ UNCHANGED <<local, queue>>
          ELSE /\ pc' = [pc EXCEPT ![c] = "awaiting"]
               /\ local' = [local EXCEPT ![c] = [article |-> s.article,
                                                 frontmatter |-> s.frontmatter.value,
                                                 headings |-> getHeadings(s.article),
                                                 tokens |-> Lex(s.article)]]
               /\ queue' = [queue EXCEPT ![c] = SelectSeq(Lex(s.article), IsCode)]
               /\ UNCHANGED error
       /\ UNCHANGED <<args, out, data, log, headingVars, idVars>>

\* one code block of the call is highlighted by the hook of the call's renderer
Highlight(c) ==
    LET tok == Head(queue[c])
        shiki == HookOf(instances[marked[c]])
        r == highlight(tok.text, tok.lang, shiki)
    IN /\ pc[c] = "awaiting"
       /\ queue[c] # <<>>
       /\ log' = Append(log, [call |-> c, declared |-> tok.lang,
                              lang |-> r.html.lang, theme |-> r.html.theme])
       /\ IF r.ok
          THEN /\ out' = [out EXCEPT ![c] = Append(@, r.html)]
               /\ queue' = [queue EXCEPT ![c] = Tail(@)]
               /\ UNCHANGED <<pc, error>>
          ELSE /\ pc' = [pc EXCEPT ![c] = "rejected"]
               /\ error' = [error EXCEPT ![c] = Some([name |-> "ShikiError", issue |-> None])]
               /\ UNCHANGED <<out, queue>>
       /\ UNCHANGED <<args, instances, marked, given, local, data, headingVars, idVars>>

\* marked.parse resolves; lines 258-262 assemble and return the record
Finish(c) ==
    /\ pc[c] = "awaiting"
    /\ queue[c] = <<>>
    /\ data' = [data EXCEPT ![c] = Some([article |-> local[c].article,
                                         headings |-> local[c].headings,
                                         html |-> Render(local[c].tokens, out[c]),
                                         frontmatter |-> local[c].frontmatter])]
    /\ pc' = [pc EXCEPT ![c] = "resolved"]
    /\ UNCHANGED <<args, instances, marked, given, local, queue, out, error, log, headingVars, idVars>>

(* ------------------------- bounded inputs ------------------------------ *)
RECURSIVE Flatten(_)
Flatten(ps) == IF ps = <<>> THEN <<>> ELSE Head(ps) \o Flatten(Tail(ps))

SeqsUpTo(S, n) == UNION {[1..k -> S] : k \in 0..n}

HeadingLines == { <<"#", " ", "a">>, <<"#", "#">>, Backticks, <<" ">> \o Backticks \o <<"a">>,
                  <<"a">>, <<"#", "#", " ", " ", "A", " ">>,
                  <<"#", "#", "#", "#", "#", "#", "#", "a">> }

HeadingTexts == {Join(ls, <<NL>>) : ls \in SeqsUpTo(HeadingLines, MaxLines)}

NameChars == {"A", "a", " ", ",", "-", "_", "1"}

HelloWorld == <<"H", "e", "l", "l", "o", ",", " ", "W", "o", "r", "l", "d", "!">>

Names == SeqsUpTo(NameChars, MaxName) \cup {HelloWorld}

(* ------------------------- heading scanner spec ------------------------ *)
CallIdle == /\ args = <<>> /\ pc = <<>> /\ instances = <<>> /\ marked = <<>>
            /\ given = <<>> /\ local = <<>> /\ queue = <<>> /\ out = <<>>
            /\ data = <<>> /\ error = <<>> /\ log = <<>>

HeadingsIdle == hText = <<>> /\ hPc = "off" /\ hHeadings = <<>>

IdIdle == name = <<>> /\ id = <<>> /\ id2 = <<>> /\ idPc = "off"

InitHeadings == /\ CallIdle /\ IdIdle
                /\ hText \in HeadingTexts /\ hPc = "ready" /\ hHeadings = <<>>

ScanHeadings == /\ hPc = "ready"
                /\ hHeadings' = getHeadings(hText)
                /\ hPc' = "done"
                /\ UNCHANGED <<hText, callVars, idVars>>

NextHeadings == ScanHeadings

SpecHeadings == InitHeadings /\ [][NextHeadings]_vars

(* ------------------------- heading id spec ----------------------------- *)
InitId == /\ CallIdle /\ HeadingsIdle
          /\ name \in Names /\ id = <<>> /\ id2 = <<>> /\ idPc = "ready"

DeriveId == /\ idPc = "ready"
            /\ id' = HeadingId(name)
            /\ idPc' = "derived"
            /\ UNCHANGED <<name, id2, callVars, headingVars>>

DeriveAgain == /\ idPc = "derived"
               /\ id2' = HeadingId(id)
               /\ idPc' = "done"
               /\ UNCHANGED <<name, id, callVars, headingVars>>

NextId == DeriveId \/ DeriveAgain

SpecId == InitId /\ [][NextId]_vars

(* ------------------------- single call spec ---------------------------- *)
Pieces == {Delim, <<"a">>, <<"z">>, <<NL>>, Backticks, <<"#", " ">>}

Docs == {Flatten(ps) : ps \in SeqsUpTo(Pieces, MaxPieces)}

SchemaA == [keys |-> <<"a">>]

SchemaAB == [keys |-> <<"a", "b">>]

Schemas == {None, Some(SchemaA), Some(SchemaAB)}

ShikiOpts == {NoShiki, [lang |-> None, theme |-> Some("github-light")],
              [lang |-> Some(<<"a">>), theme |-> None]}

Args == [md : Docs, frontmatterSchema : Schemas, shiki : ShikiOpts]

InitCalls(a) == /\ args = a
                /\ pc = [c \in DOMAIN a |-> "idle"]
                /\ instances = <<>>
                /\ marked = [c \in DOMAIN a |-> 0]
                /\ given = [c \in DOMAIN a |-> None]
                /\ local = [c \in DOMAIN a |-> NoLocal]
                /\ queue = [c \in DOMAIN a |-> <<>>]
                /\ out = [c \in DOMAIN a |-> <<>>]
                /\ data = [c \in DOMAIN a |-> None]
                /\ error = [c \in DOMAIN a |-> None]
                /\ log = <<>>

Init == /\ HeadingsIdle /\ IdIdle
        /\ \E a \in [{1} -> Args] : InitCalls(a)

Next == \E c \in Calls : Start(c) \/ Highlight(c) \/ Finish(c)

Spec == Init /\ [][Next]_vars

(* ------------------------- concurrent calls spec ----------------------- *)
CodeBlock(lang) == Backticks \o lang \o <<NL, "a", NL>> \o Backticks \o <<NL>>

Blocks == {CodeBlock(<<"a">>), CodeBlock(<<"z">>), <<"#", " ", "a", NL>>}

ConcDocs == {Flatten(bs) : bs \in SeqsUpTo(Blocks, MaxBlocks)}

ConcArgs == [md : ConcDocs, frontmatterSchema : {None}, shiki : ShikiOpts]

InitConc == /\ HeadingsIdle /\ IdIdle
            /\ \E a \in [{1, 2} -> ConcArgs] : a[1].shiki # a[2].shiki /\ InitCalls(a)

SpecConc == InitConc /\ [][Next]_vars

(* ========================= properties ================================== *)
SplitOf(c) == Split(args[c].md, Delim)

Started(c) == pc[c] # "idle"

Stripped(c) == Join(Drop(SplitOf(c), 2), Delim)

\* C1 (as stated): for a document with a metadata block, the article returned is
\* the document without the block, whether or not a schema was supplied.
C1_Original ==
    \A c \in Calls : (pc[c] = "resolved" /\ Len(SplitOf(c)) >= 3 /\ SplitOf(c)[2] # <<>>)
                        => data[c][1].article = Stripped(c)

\* C1 (amended): for a document with at least two delimiters, the article (and
\* the text lexed by the renderer and scanned for headings) is the document from
\* after the second delimiter on when a schema was supplied and the text between
\* the first two delimiters is not empty, and the whole document otherwise.
C1_Amended ==
    \A c \in Calls : (pc[c] = "resolved" /\ Len(SplitOf(c)) >= 3)
        => LET expected == IF args[c].frontmatterSchema # None /\ SplitOf(c)[2] # <<>>
                           THEN Stripped(c) ELSE args[c].md
           IN /\ data[c][1].article = expected
              /\ local[c].tokens = Lex(expected)
              /\ data[c][1].headings = getHeadings(expected)

C1_Witness ==
    \E c \in Calls : /\ pc[c] = "resolved" /\ Len(SplitOf(c)) >= 3 /\ SplitOf(c)[2] # <<>>
                     /\ args[c].frontmatterSchema # None
                     /\ data[c][1].article = Stripped(c)
                     /\ data[c][1].article # args[c].md

\* C2: with a schema and a document that has no metadata block (fewer than two
\* delimiters) the call never returns a result record.
C2_Claim ==
    \A c \in Calls : (args[c].frontmatterSchema # None /\ Len(SplitOf(c)) < 3)
                        => pc[c] # "resolved"

\* C3: when the delimiter occurs at most once, the validator is given no text and
\* the article returned is the whole document.
C3_Claim ==
    \A c \in Calls : (Started(c) /\ Len(SplitOf(c)) <= 2)
                        => /\ given[c] = None
                           /\ pc[c] = "resolved" => data[c][1].article = args[c].md

\* C4 (as stated): with a schema and at least two delimiters, the validator is
\* given segment 1 and the article is segments 2 onward rejoined with the delimiter.
C4_Original ==
    \A c \in Calls : (Started(c) /\ args[c].frontmatterSchema # None /\ Len(SplitOf(c)) >= 3)
                        => /\ given[c] = Some(SplitOf(c)[2])
                           /\ pc[c] = "resolved" => data[c][1].article = Stripped(c)

\* C4 (amended): with a schema and at least two delimiters, a non-empty segment 1
\* is the text given to the validator and the article of a returned record is
\* segments 2 onward rejoined with the delimiter; an empty segment 1 is not given
\* to the validator.
C4_Amended ==
    \A c \in Calls : (Started(c) /\ args[c].frontmatterSchema # None /\ Len(SplitOf(c)) >= 3)
                        => IF SplitOf(c)[2] # <<>>
                           THEN /\ given[c] = Some(SplitOf(c)[2])
                                /\ pc[c] = "resolved" => data[c][1].article = Stripped(c)
                           ELSE given[c] = None

C4_Witness ==
    \E c \in Calls : /\ pc[c] = "resolved" /\ args[c].frontmatterSchema # None
                     /\ Len(SplitOf(c)) >= 4 /\ SplitOf(c)[2] # <<>>
                     /\ given[c] = Some(SplitOf(c)[2])
                     /\ IndexOf(data[c][1].article, Delim) # 0

HLines == Split(hText, <<NL>>)

IsFenceLine(i) == IsPrefixAt(Trim(HLines[i]), Backticks, 1)

\* 1 to 6 hashes, optional whitespace, then one or more remaining characters
MatchesHeadingRule(t) ==
    \E g \in 1..6, w \in 0..Len(t) :
        /\ g + w < Len(t)
        /\ \A j \in 1..g : t[j] = "#"
        /\ \A j \in (g + 1)..(g + w) : IsSpace(t[j])
        /\ t[g + w + 1] \notin LineTerminators

HeadingIdx == {i \in 1..Len(HLines) :
                  /\ MatchesHeadingRule(Trim(HLines[i]))
                  /\ ~IsFenceLine(i)
                  /\ Cardinality({j \in 1..(i - 1) : IsFenceLine(j)}) % 2 = 0}

NthHeadingLine(k) == Trim(HLines[CHOOSE i \in HeadingIdx : Cardinality({j \in HeadingIdx : j < i}) = k - 1])

\* C5: getHeadings returns, in document order and without deduplication, exactly
\* one heading per line that after trimming matches the heading rule, is not a
\* fence line and has an even number of fence lines before it.
C5_Theorem ==
    hPc = "done" =>
        /\ Len(hHeadings) = Cardinality(HeadingIdx)
        /\ \A k \in 1..Len(hHeadings) :
              LET t == NthHeadingLine(k)
                  h == hHeadings[k]
              IN /\ h.level \in 1..6
                 /\ h.name # <<>>
                 /\ h.level + Len(h.name) <= Len(t)
                 /\ \A j \in 1..h.level : t[j] = "#"
                 /\ \A j \in (h.level + 1)..(Len(t) - Len(h.name)) : IsSpace(t[j])
                 /\ Drop(t, Len(t) - Len(h.name)) = h.name

C5_Witness ==
    /\ hPc = "done"
    /\ hText = Join(<<Backticks, <<"#", " ", "a">>, Backticks, <<"#", " ", "a">>>>, <<NL>>)
    /\ hHeadings = <<[id |-> <<"a">>, level |-> 1, name |-> <<"a">>]>>

\* C6: a captured line that begins with k hashes, 1 <= k <= 6, gives a heading of
\* level k whose name is the rest of the line after those k hashes, trimmed.
C6_Claim ==
    (hPc = "done" /\ Len(hHeadings) = Cardinality(HeadingIdx)) =>
        \A k \in 1..Len(hHeadings) :
            LET t == NthHeadingLine(k)
            IN HashRun(t) \in 1..6 => /\ hHeadings[k].level = HashRun(t)
                                      /\ hHeadings[k].name = Trim(Drop(t, HashRun(t)))

IssuesOf(c) == safeParse(args[c].frontmatterSchema[1], load(given[c][1]).value).issues

\* C7: when the validator reports failure on the metadata block, the call fails
\* with an error carrying exactly the first issue of the list, and returns no record.
C7_Theorem ==
    \A c \in Calls : (Started(c) /\ given[c] # None /\ load(given[c][1]).ok /\ IssuesOf(c) # <<>>)
                        => /\ pc[c] = "rejected"
                           /\ error[c] = Some([name |-> "Error", issue |-> Some(IssuesOf(c)[1])])
                           /\ data[c] = None

C7_Witness ==
    \E c \in Calls : /\ pc[c] = "rejected" /\ given[c] # None /\ load(given[c][1]).ok
                     /\ Len(IssuesOf(c)) >= 2
                     /\ IssuesOf(c)[1] # IssuesOf(c)[Len(IssuesOf(c))]
                     /\ error[c][1].issue = Some(IssuesOf(c)[1])

\* C8: a code block whose declared language the highlighter does not know is
\* highlighted as plain text and does not make the call fail.
C8_Claim ==
    /\ \A i \in 1..Len(log) : log[i].declared \notin BundledLangs \cup PlainLangs
                                 => log[i].lang \in PlainLangs
    /\ \A c \in Calls : error[c] # Some([name |-> "ShikiError", issue |-> None])

IdChars == LowerLetters \cup Digits \cup {"_", "-"}

\* C9: the id derivation is idempotent, an id holds only lowercase word
\* characters and hyphens, and "Hello, World!" gives "hello-world".
C9_Theorem ==
    /\ idPc \in {"derived", "done"} =>
          /\ \A i \in 1..Len(id) : id[i] \in IdChars
          /\ name = HelloWorld => id = <<"h", "e", "l", "l", "o", "-", "w", "o", "r", "l", "d">>
    /\ idPc = "done" => id2 = id

C9_Witness ==
    /\ idPc = "done" /\ name = HelloWorld
    /\ id = <<"h", "e", "l", "l", "o", "-", "w", "o", "r", "l", "d">> /\ id2 = id

\* what a call returns when it runs alone, computed without the renderer registry
ProcessAlone(arg) ==
    LET s == SyncPart(arg)
        tokens == Lex(s.article)
        codes == SelectSeq(tokens, IsCode)
        res == [i \in 1..Len(codes) |-> highlight(codes[i].text, codes[i].lang, arg.shiki)]
    IN IF ~s.frontmatter.ok
       THEN [status |-> "rejected", error |-> Some(s.frontmatter.error), data |-> None]
       ELSE IF \E i \in 1..Len(codes) : ~res[i].ok
            THEN [status |-> "rejected", error |-> Some([name |-> "ShikiError", issue |-> None]),
                  data |-> None]
            ELSE [status |-> "resolved", error |-> None,
                  data |-> Some([article |-> s.article, headings |-> getHeadings(s.article),
                                 html |-> Render(tokens, [i \in 1..Len(codes) |-> res[i].html]),
                                 frontmatter |-> s.frontmatter.value])]

\* C10: two interleaved calls with different highlight options each build their
\* own renderer, every highlighter invocation uses the invoking call's options,
\* and each call ends as it does when run alone.
C10_Theorem ==
    /\ \A c, d \in Calls : (c # d /\ marked[c] # 0 /\ marked[d] # 0) => marked[c] # marked[d]
    /\ \A i \in 1..Len(log) :
          [lang |-> log[i].lang, theme |-> log[i].theme]
             = Assign([lang |-> log[i].declared, theme |-> DefaultTheme], args[log[i].call].shiki)
    /\ \A c \in Calls : pc[c] \in {"resolved", "rejected"}
          => [status |-> pc[c], error |-> error[c], data |-> data[c]] = ProcessAlone(args[c])

C10_Witness ==
    /\ Calls = {1, 2}
    /\ args[1].shiki # args[2].shiki
    /\ \A c \in Calls : pc[c] = "resolved"
    /\ \E i, j, k \in 1..Len(log) : i < j /\ j < k /\ log[i].call = 1 /\ log[j].call = 2 /\ log[k].call = 1
    /\ \E i, j \in 1..Len(log) : log[i].call # log[j].call /\ log[i].theme # log[j].theme

====
